---- MODULE Spec2Model ----
(***************************************************************************)
(* State-machine model of src/src/main.rs: the process runs run(), which   *)
(* creates the event loop and the window, builds App with App::new (a      *)
(* sequence of fallible steps, each unwrapped), and then hands a closure   *)
(* to event_loop.run; the closure calls App::render on each main-window    *)
(* RedrawRequested and elwt.exit() on each main-window CloseRequested.     *)
(*                                                                         *)
(* The constants VERTEX_DATA and INDEX_DATA live in the module `vertices`  *)
(* (main.rs line 12), whose source is not part of src/; they are taken     *)
(* from the specification's data model (section 3) and drawn from bounded  *)
(* sets in Init.  The outcomes of the windowing and graphics libraries     *)
(* (which adapter is found, whether a surface image can be acquired, which *)
(* event is delivered next) are inputs chosen with \E.                     *)
(***************************************************************************)
EXTENDS Integers, Sequences, FiniteSets, TLC

VARIABLES
    VERTEX_DATA,      \* vertices::VERTEX_DATA, a sequence of 3-component positions
    INDEX_DATA,       \* vertices::INDEX_DATA, a sequence of u32
    pc,               \* position of the process in run()
    panic_at,         \* the unwrap that panicked, "none" while none did
    exit_status,      \* "running", then "success" or "panic" once the process ended
    window_size,      \* inner size of the window (changed by the windowing system)
    new,              \* the locals of App::new built so far
    app,              \* the App value owned by the event-loop closure
    live,             \* GPU resources created and not yet dropped
    vboWrites,        \* number of times the vertex buffer contents were written
    iboWrites,        \* number of times the index buffer contents were written
    configures,       \* number of surface.configure calls
    control_flow,     \* the event loop's control flow as last set by the closure
    exit,             \* whether elwt.exit() has been called
    ev,               \* the event last handed to the closure
    renderCalls,      \* number of calls of App::render
    acquires,         \* number of surface.get_current_texture calls
    surface_texture,  \* outcome of the last get_current_texture call
    encoders,         \* number of command encoders created
    submits,          \* number of queue.submit calls
    presents,         \* number of surface_texture.present calls
    frames            \* the frames submitted and presented, oldest first

vars == <<VERTEX_DATA, INDEX_DATA, pc, panic_at, exit_status, window_size, new,
          app, live, vboWrites, iboWrites, configures, control_flow, exit, ev,
          renderCalls, acquires, surface_texture, encoders, submits, presents,
          frames>>

(***************************************************************************)
(* Bounds of the model.                                                    *)
(***************************************************************************)
MaxIdx == 3       \* longest INDEX_DATA explored
MaxVerts == 1     \* longest VERTEX_DATA explored
MaxRenders == 3   \* App::render calls explored per execution

(***************************************************************************)
(* Program constants.                                                      *)
(***************************************************************************)
WaitMillis == 16           \* Duration::from_millis(16) in run

\* f32 bit patterns of the coordinates used for the explored vertex data
F32Bits == {0, 1065353216}

Positions == {<<x, y, z>> : x \in F32Bits, y \in {0}, z \in {0}}

IndexValues == {0, 1}

SeqsUpTo(S, n) == UNION {[1 .. k -> S] : k \in 0 .. n}

None == [tag |-> "None"]

\* values the windowing system reports for window.inner_size()
Sizes == {<<800, 600>>, <<1024, 768>>}

NoSize == <<0, 0>>

\* adapters the backend may answer with: whether the SPIR-V passthrough
\* feature is available and which surface formats the surface supports
Adapters == [tag : {"Adapter"}, passthrough : BOOLEAN,
             formats : {<<>>, <<"Bgra8UnormSrgb">>, <<"Rgba8UnormSrgb", "Bgra8UnormSrgb">>}]

\* outcomes of Surface::get_current_texture
AcquireOutcomes == {"Ok", "Timeout", "Outdated", "Lost", "OutOfMemory"}

main_window_id == "main"

WindowIds == {main_window_id, "other"}

NoWindow == "none"

WindowEvents == {"RedrawRequested", "CloseRequested", "Resized", "Focused"}

\* Event::WindowEvent { window_id, event } and the other Event variants the
\* loop delivers (NewEvents is the wake-up of the wait_duration timeout)
Events == [kind : {"WindowEvent"}, window_id : WindowIds, event : WindowEvents]
          \cup [kind : {"NewEvents", "AboutToWait"}, window_id : {NoWindow},
                event : {"none"}]

LoopExiting == [kind |-> "LoopExiting", window_id |-> NoWindow, event |-> "none"]

NoEvent == [kind |-> "none", window_id |-> NoWindow, event |-> "none"]

(***************************************************************************)
(* bytemuck::cast_slice: the bytes of a slice of u32 (or of f32 given by   *)
(* their bit patterns), four little-endian bytes each.                     *)
(***************************************************************************)
U32Bytes(n) == <<n % 256, (n \div 256) % 256, (n \div 65536) % 256,
                 (n \div 16777216) % 256>>

RECURSIVE cast_slice(_)
cast_slice(s) == IF s = <<>> THEN <<>>
                 ELSE U32Bytes(Head(s)) \o cast_slice(Tail(s))

RECURSIVE Flatten(_)
Flatten(s) == IF s = <<>> THEN <<>> ELSE Head(s) \o Flatten(Tail(s))

\* device.create_buffer_init: a buffer holding exactly the given bytes
create_buffer_init(contents, usage) ==
    [tag |-> "Buffer", usage |-> usage, contents |-> contents]

NewLocals == [adapter |-> None, device |-> None, queue |-> None, size |-> NoSize,
              surface |-> None, surface_config |-> None, vbo |-> None, ibo |-> None]

Init ==
    /\ VERTEX_DATA \in SeqsUpTo(Positions, MaxVerts)
    /\ INDEX_DATA \in SeqsUpTo(IndexValues, MaxIdx)
    /\ pc = "main"
    /\ panic_at = "none"
    /\ exit_status = "running"
    /\ window_size = NoSize
    /\ new = NewLocals
    /\ app = None
    /\ live = {}
    /\ vboWrites = 0
    /\ iboWrites = 0
    /\ configures = 0
    /\ control_flow = [mode |-> "Poll", millis |-> 0]
    /\ exit = FALSE
    /\ ev = NoEvent
    /\ renderCalls = 0
    /\ acquires = 0
    /\ surface_texture = "none"
    /\ encoders = 0
    /\ submits = 0
    /\ presents = 0
    /\ frames = <<>>

\* a failed unwrap: the process ends with the panic status
Panic(site) ==
    /\ pc' = "panicked"
    /\ panic_at' = site
    /\ exit_status' = "panic"

NoPanic == UNCHANGED <<panic_at, exit_status>>

LoopVars == <<control_flow, exit, ev>>

RenderVars == <<renderCalls, acquires, surface_texture, encoders, submits,
                presents, frames>>

GpuVars == <<new, app, live, vboWrites, iboWrites, configures>>

Data == <<VERTEX_DATA, INDEX_DATA>>

(***************************************************************************)
(* main(), line 161: println! panics when standard output cannot be        *)
(* written; otherwise main goes on to run().block_on().                    *)
(***************************************************************************)
PrintHello(ok) ==
    /\ pc = "main"
    /\ IF ok THEN pc' = "event_loop_new" /\ NoPanic ELSE Panic("println")
    /\ UNCHANGED <<Data, window_size, GpuVars, LoopVars, RenderVars>>

(***************************************************************************)
(* run(), lines 166-167: the event loop and the window, both unwrapped.    *)
(***************************************************************************)
EventLoopNew(ok) ==
    /\ pc = "event_loop_new"
    /\ IF ok THEN pc' = "window_new" /\ NoPanic ELSE Panic("EventLoop::new")
    /\ UNCHANGED <<Data, window_size, GpuVars, LoopVars, RenderVars>>

WindowNew(ok, size) ==
    /\ pc = "window_new"
    /\ IF ok
       THEN pc' = "request_adapter" /\ window_size' = size /\ NoPanic
       ELSE Panic("Window::new") /\ UNCHANGED window_size
    /\ UNCHANGED <<Data, GpuVars, LoopVars, RenderVars>>

(***************************************************************************)
(* App::new, lines 24-120, one action per fallible step.                   *)
(***************************************************************************)
\* Option/Result::unwrap panics on None/Err
unwrap_panics(r) == r = None

\* lines 25-29: Instance::new, request_adapter(..).await.unwrap()
RequestAdapter(a) ==
    /\ pc = "request_adapter"
    /\ IF unwrap_panics(a)
       THEN /\ Panic("request_adapter")
            /\ live' = live \cup {"instance"}
            /\ UNCHANGED new
       ELSE /\ pc' = "request_device"
            /\ new' = [new EXCEPT !.adapter = a]
            /\ live' = live \cup {"instance", "adapter"}
            /\ NoPanic
    /\ UNCHANGED <<Data, window_size, app, vboWrites, iboWrites, configures,
                   LoopVars, RenderVars>>

\* adapter.request_device with required_features SPIRV_SHADER_PASSTHROUGH:
\* an error when the adapter lacks the feature or the driver refuses
request_device(adapter, granted) ==
    IF adapter.passthrough /\ granted
    THEN [tag |-> "Device", features |-> {"SPIRV_SHADER_PASSTHROUGH"}]
    ELSE None

\* lines 30-39
RequestDevice(granted) ==
    /\ pc = "request_device"
    /\ LET d == request_device(new.adapter, granted) IN
       IF unwrap_panics(d)
       THEN Panic("request_device") /\ UNCHANGED <<new, live>>
       ELSE /\ pc' = "create_surface"
            /\ new' = [new EXCEPT !.device = d, !.queue = [tag |-> "Queue"]]
            /\ live' = live \cup {"device", "queue"}
            /\ NoPanic
    /\ UNCHANGED <<Data, window_size, app, vboWrites, iboWrites, configures,
                   LoopVars, RenderVars>>

\* lines 41-42: window.inner_size(), inst.create_surface(window).unwrap()
CreateSurface(ok) ==
    /\ pc = "create_surface"
    /\ LET s == IF ok THEN [tag |-> "Surface", config |-> None] ELSE None IN
       IF unwrap_panics(s)
       THEN /\ Panic("create_surface")
            /\ new' = [new EXCEPT !.size = window_size]
            /\ UNCHANGED live
       ELSE /\ pc' = "get_default_config"
            /\ new' = [new EXCEPT !.size = window_size, !.surface = s]
            /\ live' = live \cup {"surface"}
            /\ NoPanic
    /\ UNCHANGED <<Data, window_size, app, vboWrites, iboWrites, configures,
                   LoopVars, RenderVars>>

\* Surface::get_default_config: None when the surface supports no format with
\* this adapter, else the first supported format at the given size
get_default_config(adapter, width, height) ==
    IF adapter.formats = <<>> THEN None
    ELSE [tag |-> "SurfaceConfiguration", format |-> Head(adapter.formats),
          width |-> width, height |-> height]

\* a missing default configuration that is not noticed
default_config_unchecked(c) == FALSE

\* whether the unwrap of line 45 panics
default_config_panics(c) == unwrap_panics(c)

\* lines 43-46: get_default_config(..).unwrap(), surface.configure
ConfigureSurface ==
    /\ pc = "get_default_config"
    /\ LET c == get_default_config(new.adapter, new.size[1], new.size[2]) IN
       IF default_config_panics(c)
       THEN Panic("get_default_config") /\ UNCHANGED <<new, configures>>
       ELSE /\ pc' = "create_buffers"
            /\ new' = [new EXCEPT !.surface_config = c, !.surface.config = c]
            /\ configures' = configures + 1
            /\ NoPanic
    /\ UNCHANGED <<Data, window_size, app, live, vboWrites, iboWrites,
                   LoopVars, RenderVars>>

\* line 50: bytemuck::cast_slice(vertices::VERTEX_DATA)
vbo_contents == cast_slice(Flatten(VERTEX_DATA))

\* the index buffer filled from the vertex data
ibo_contents_from_vertices == cast_slice(Flatten(VERTEX_DATA))

\* line 56: bytemuck::cast_slice(vertices::INDEX_DATA)
ibo_contents == cast_slice(INDEX_DATA)

\* lines 48-58: the two create_buffer_init calls
CreateBuffers ==
    /\ pc = "create_buffers"
    /\ pc' = "create_pipeline"
    /\ new' = [new EXCEPT !.vbo = create_buffer_init(vbo_contents, "VERTEX"),
                          !.ibo = create_buffer_init(ibo_contents, "INDEX")]
    /\ vboWrites' = vboWrites + 1
    /\ iboWrites' = iboWrites + 1
    /\ live' = live \cup {"vbo", "ibo"}
    /\ NoPanic
    /\ UNCHANGED <<Data, window_size, app, configures, LoopVars, RenderVars>>

\* lines 72-110: the RenderPipelineDescriptor
render_pipeline(surface_config) ==
    [tag |-> "RenderPipeline",
     bind_group_layouts |-> <<>>,
     push_constant_ranges |-> <<>>,
     vertex |-> [entry_point |-> "main", array_stride |-> 4 * 3,
                 step_mode |-> "Vertex", format |-> "Float32x3",
                 offset |-> 0, shader_location |-> 0],
     primitive |-> [topology |-> "TriangleList", front_face |-> "Ccw",
                    cull_mode |-> "Back", polygon_mode |-> "Fill"],
     fragment |-> [entry_point |-> "main", format |-> surface_config.format,
                   blend |-> "REPLACE", write_mask |-> "ALL"]]

\* lines 112-119: Self { device, queue, surface, pipeline, vbo, ibo }
Self(locals, pipeline) ==
    [tag |-> "App", device |-> locals.device, queue |-> locals.queue,
     surface |-> locals.surface, pipeline |-> pipeline,
     vbo |-> locals.vbo, ibo |-> locals.ibo]

\* the resources App owns
AppResources == {"device", "queue", "surface", "pipeline", "vbo", "ibo"}

\* lines 60-120 and 169-172: shader modules, layout, pipeline; App::new returns
\* Self (its other locals are dropped) and run() enters event_loop.run
CreatePipeline ==
    /\ pc = "create_pipeline"
    /\ pc' = "event_loop"
    /\ app' = Self(new, render_pipeline(new.surface_config))
    /\ new' = NewLocals
    /\ live' = AppResources
    /\ NoPanic
    /\ UNCHANGED <<Data, window_size, vboWrites, iboWrites, configures,
                   LoopVars, RenderVars>>
(***************************************************************************)
(* App::render, lines 122-157.                                             *)
(***************************************************************************)
\* lines 137-142: LoadOp::Clear(Color { r: 0.0, g: 0.0, b: 1.0, a: 1.0 })
clear_color == <<0, 0, 1, 1>>

\* a draw with a hard-coded index count
draw_indexed_fixed_count ==
    [op |-> "draw_indexed", indices |-> <<0, 3>>,
     base_vertex |-> 0, instances |-> <<0, 1>>]

\* `usize as u32` keeps the low 32 bits: the multiples of 2^32 are dropped
as_u32(n) ==
    LET hi == (n \div 65536) \div 65536 IN
    IF hi = 0 THEN n ELSE n - hi * 65536 * 65536

\* line 153: draw_indexed(0..(INDEX_DATA.len() as u32), 0, 0..1)
draw_indexed ==
    [op |-> "draw_indexed", indices |-> <<0, as_u32(Len(INDEX_DATA))>>,
     base_vertex |-> 0, instances |-> <<0, 1>>]

\* a pass that leaves out the draw when there is nothing to draw
render_pass_skipping_empty(self) ==
    << [op |-> "begin_render_pass", load |-> "Clear", color |-> clear_color,
        store |-> "Store"] >>
    \o (IF Len(self.ibo.contents) = 0 THEN <<>>
        ELSE << [op |-> "set_pipeline", pipeline |-> self.pipeline],
                [op |-> "set_vertex_buffer", slot |-> 0, buffer |-> self.vbo],
                [op |-> "set_index_buffer", buffer |-> self.ibo,
                 format |-> "Uint32"],
                draw_indexed >>)

\* lines 131-153: the commands recorded into the render pass
render_pass(self) ==
    << [op |-> "begin_render_pass", load |-> "Clear", color |-> clear_color,
        store |-> "Store"],
       [op |-> "set_pipeline", pipeline |-> self.pipeline],
       [op |-> "set_vertex_buffer", slot |-> 0, buffer |-> self.vbo],
       [op |-> "set_index_buffer", buffer |-> self.ibo, format |-> "Uint32"],
       draw_indexed >>

\* a frame whose target follows the window's current size
frame_at_window_size(self) ==
    [passes |-> <<render_pass(self)>>,
     target |-> [self.surface.config EXCEPT !.width = window_size[1],
                                            !.height = window_size[2]]]

\* lines 124-156: the frame submitted and presented: the pass, recorded against
\* the surface image, whose size and format are those the surface was
\* configured with
frame(self) == [passes |-> <<render_pass(self)>>, target |-> self.surface.config]

\* an acquisition whose timeout is let through
acquire_panics_except_timeout(outcome) == outcome \notin {"Ok", "Timeout"}

\* line 123: whether get_current_texture().unwrap() panics
acquire_panics(outcome) == outcome # "Ok"

\* App::render with the given outcome of get_current_texture
render(outcome) ==
    /\ renderCalls' = renderCalls + 1
    /\ acquires' = acquires + 1
    /\ surface_texture' = outcome
    /\ IF acquire_panics(outcome)
       THEN /\ Panic("get_current_texture")
            /\ UNCHANGED <<encoders, submits, presents, frames>>
       ELSE /\ encoders' = encoders + 1
            /\ submits' = submits + 1
            /\ presents' = presents + 1
            /\ frames' = Append(frames, frame(app))
            /\ pc' = pc
            /\ NoPanic

(***************************************************************************)
(* The closure given to event_loop.run, lines 172-190.                     *)
(***************************************************************************)
\* an inner match that also renders on a resize
inner_match_render_on_resize(event) ==
    IF event \in {"RedrawRequested", "Resized"} THEN "render"
    ELSE IF event = "CloseRequested" THEN "exit"
    ELSE "ignore"

\* lines 178-186: the match on the window event
inner_match(event) ==
    IF event = "RedrawRequested" THEN "render"
    ELSE IF event = "CloseRequested" THEN "exit"
    ELSE "ignore"

\* an outer match without the guard window_id == main_window_id
outer_match_any_window(e) ==
    IF e.kind = "WindowEvent" THEN inner_match(e.event) ELSE "ignore"

\* lines 176-189: the match on the event, with its guard on the window id
outer_match(e) ==
    IF e.kind = "WindowEvent" /\ e.window_id = main_window_id
    THEN inner_match(e.event)
    ELSE "ignore"

\* lines 173-175
wait_duration == [mode |-> "WaitUntil", millis |-> WaitMillis]

\* One call of the closure.  The loop hands it events for as long as it runs,
\* which includes the rest of the iteration in which elwt.exit() was called.
\* A Resized event reports a size the windowing system has already applied.
\* LoopExiting is the last event the loop hands over, once an exit was
\* requested or when the windowing system failed; event_loop.run returns
\* after it.
HandleEvent(e, size) ==
    /\ pc = "event_loop"
    /\ e \in Events \cup {LoopExiting}
    /\ outer_match(e) = "render" => renderCalls < MaxRenders
    /\ control_flow' = wait_duration
    /\ ev' = e
    /\ window_size' = IF e.kind = "WindowEvent" /\ e.window_id = main_window_id
                         /\ e.event = "Resized"
                      THEN size ELSE window_size
    /\ CASE outer_match(e) = "render" ->
              /\ \E outcome \in AcquireOutcomes : render(outcome)
              /\ exit' = exit
         [] outer_match(e) = "exit" ->
              /\ exit' = TRUE
              /\ UNCHANGED <<pc, panic_at, exit_status, RenderVars>>
         [] OTHER ->
              /\ pc' = IF e = LoopExiting THEN "loop_exiting" ELSE pc
              /\ UNCHANGED <<panic_at, exit_status, exit, RenderVars>>
    /\ UNCHANGED <<Data, GpuVars>>

\* lines 171-192: event_loop.run returns, after the closure was handed
\* LoopExiting, and its Result is unwrapped.  It returns Ok(()) only when
\* elwt.exit() was called: run() returns and main ends with the success
\* status.  It returns Err when the windowing system failed, whether or not an
\* exit was requested, and the unwrap of line 191 panics.  Either way the
\* closure, and with it App, has been dropped by the time it returns.
LoopExit(ok) ==
    /\ pc = "loop_exiting"
    /\ ok => exit
    /\ IF ok
       THEN /\ pc' = "exited"
            /\ exit_status' = "success"
            /\ UNCHANGED panic_at
       ELSE Panic("event_loop.run")
    /\ app' = None
    /\ live' = {}
    /\ UNCHANGED <<Data, window_size, new, vboWrites, iboWrites,
                   configures, LoopVars, RenderVars>>

Next ==
    \/ \E ok \in BOOLEAN : PrintHello(ok)
    \/ \E ok \in BOOLEAN : EventLoopNew(ok)
    \/ \E ok \in BOOLEAN, size \in Sizes : WindowNew(ok, size)
    \/ \E a \in Adapters \cup {None} : RequestAdapter(a)
    \/ \E granted \in BOOLEAN : RequestDevice(granted)
    \/ \E ok \in BOOLEAN : CreateSurface(ok)
    \/ ConfigureSurface
    \/ CreateBuffers
    \/ CreatePipeline
    \/ \E e \in Events \cup {LoopExiting}, size \in Sizes : HandleEvent(e, size)
    \/ \E ok \in BOOLEAN : LoopExit(ok)

Spec == Init /\ [][Next]_vars
(***************************************************************************)
(* Vocabulary of the properties.                                           *)
(***************************************************************************)
\* inside event_loop.run
InLoop == pc \in {"event_loop", "loop_exiting"}

Running == InLoop /\ ~exit

Closing == exit /\ (InLoop \/ pc = "exited")

IsMain(e, what) ==
    e.kind = "WindowEvent" /\ e.window_id = "main" /\ e.event = what

\* a step in which the closure was handed an event (the other step of the
\* loop, from loop_exiting, is the return of event_loop.run)
ClosureRan == pc = "event_loop"

SetupSites == {"EventLoop::new", "Window::new", "request_adapter",
               "request_device", "create_surface", "get_default_config"}

\* the u32 (or f32 bit pattern) stored little-endian at entry i of a byte sequence
EntryAt(bytes, i) ==
    bytes[4 * i - 3] + 256 * bytes[4 * i - 2] + 65536 * bytes[4 * i - 1]
    + 16777216 * bytes[4 * i]

\* the byte sequence holds exactly the entries of s, in order
Holds(bytes, s) ==
    /\ Len(bytes) = 4 * Len(s)
    /\ \A i \in 1 .. Len(s) : EntryAt(bytes, i) = s[i]

ThePass(f) == f.passes[1]

(***************************************************************************)
(* C1.  Every render that records a pass records the same fixed sequence:  *)
(* a clear to (0,0,1,1), one pipeline bind, one vertex-buffer bind at slot *)
(* 0, one index-buffer bind with 32-bit indices, one indexed draw of       *)
(* indices 0..len(INDEX_DATA), base vertex 0, instances 0..1; whatever the *)
(* number of earlier renders and whatever events came before.              *)
(***************************************************************************)
C1_FixedCommandSequence ==
    \A i \in 1 .. Len(frames) :
        LET p == ThePass(frames[i]) IN
        /\ Len(frames[i].passes) = 1
        /\ Len(p) = 5
        /\ p[1].op = "begin_render_pass" /\ p[1].load = "Clear"
        /\ p[1].color = <<0, 0, 1, 1>>
        /\ p[2].op = "set_pipeline" /\ p[2].pipeline.tag = "RenderPipeline"
        /\ p[3].op = "set_vertex_buffer" /\ p[3].slot = 0
        /\ p[3].buffer.usage = "VERTEX"
        /\ p[4].op = "set_index_buffer" /\ p[4].format = "Uint32"
        /\ p[4].buffer.usage = "INDEX"
        /\ p[5] = [op |-> "draw_indexed", indices |-> <<0, Len(INDEX_DATA)>>,
                   base_vertex |-> 0, instances |-> <<0, 1>>]
        /\ p = ThePass(frames[1])

\* two frames were rendered, with a resize of the window in between or before
C1_Witness ==
    /\ Len(frames) >= 2
    /\ pc = "event_loop"
    /\ <<frames[1].target.width, frames[1].target.height>> # window_size
    /\ INDEX_DATA # <<>>
(***************************************************************************)
(* C2 as claimed.  In Running, of the signals handed to the closure: a     *)
(* main-window redraw calls App::render                                    *)
(* exactly once and leaves the state Running; a main-window close moves to *)
(* Closing; every other signal causes no render, no exit, no state change. *)
(***************************************************************************)
C2_DispatchAsClaimed ==
    [][(Running /\ ClosureRan) =>
        /\ IsMain(ev', "RedrawRequested") =>
              renderCalls' = renderCalls + 1 /\ Running'
        /\ IsMain(ev', "CloseRequested") =>
              Closing' /\ renderCalls' = renderCalls
        /\ (~IsMain(ev', "RedrawRequested") /\ ~IsMain(ev', "CloseRequested")) =>
              renderCalls' = renderCalls /\ Running'
              /\ UNCHANGED <<app, frames, acquires, submits, presents>>]_vars

(***************************************************************************)
(* C2 as amended.  In Running, a main-window redraw calls App::render      *)
(* exactly once; the state stays Running when that call acquires the       *)
(* surface image, and the process panics (never Closing) when it does not. *)
(* A main-window close moves to Closing without a render; every other      *)
(* signal causes no render, no exit and no state change.                   *)
(***************************************************************************)
C2_Dispatch ==
    [][(Running /\ ClosureRan) =>
        /\ IsMain(ev', "RedrawRequested") =>
              /\ renderCalls' = renderCalls + 1
              /\ acquires' = acquires + 1
              /\ IF surface_texture' = "Ok" THEN Running'
                 ELSE pc' = "panicked" /\ ~exit'
        /\ IsMain(ev', "CloseRequested") =>
              Closing' /\ renderCalls' = renderCalls
        /\ (~IsMain(ev', "RedrawRequested") /\ ~IsMain(ev', "CloseRequested")) =>
              renderCalls' = renderCalls /\ Running'
              /\ UNCHANGED <<app, frames, acquires, submits, presents>>]_vars

\* still Running after a main-window redraw that followed an ignored resize
C2_Witness ==
    /\ Running
    /\ IsMain(ev, "RedrawRequested")
    /\ renderCalls = 1
    /\ Len(frames) = 1
    /\ <<frames[1].target.width, frames[1].target.height>> # window_size

(***************************************************************************)
(* C3.  Each buffer is written once, in App::new, before any render, with  *)
(* the constant data; it is never written again; and the index count of    *)
(* every draw is the number of entries uploaded to the index buffer.       *)
(***************************************************************************)
C3_BuffersWrittenOnce ==
    /\ vboWrites <= 1 /\ iboWrites <= 1
    /\ (renderCalls > 0 \/ app # None \/ pc \in {"event_loop", "loop_exiting", "exited"}) =>
          vboWrites = 1 /\ iboWrites = 1
    /\ app # None =>
          /\ Holds(app.vbo.contents, Flatten(VERTEX_DATA))
          /\ Holds(app.ibo.contents, INDEX_DATA)
    /\ \A i \in 1 .. Len(frames) :
          LET p == ThePass(frames[i]) IN
          /\ Holds(p[3].buffer.contents, Flatten(VERTEX_DATA))
          /\ Holds(p[4].buffer.contents, INDEX_DATA)
          /\ 4 * (p[5].indices[2] - p[5].indices[1]) = Len(p[4].buffer.contents)

\* two renders drew from buffers that were uploaded once
C3_Witness ==
    /\ Len(frames) >= 2
    /\ vboWrites = 1 /\ iboWrites = 1
    /\ Len(INDEX_DATA) = 3 /\ Len(VERTEX_DATA) = 1

(***************************************************************************)
(* C4.  A render that completes changes nothing the program owns (App, the *)
(* surface configuration, the buffers, the set of live resources), and the *)
(* frame it presents equals the frame before it.                           *)
(***************************************************************************)
C4_RenderLeavesStateUnchanged ==
    [][Len(frames') = Len(frames) + 1 =>
        /\ UNCHANGED <<app, new, live, vboWrites, iboWrites, configures>>
        /\ frames # <<>> => frames'[Len(frames')] = frames[Len(frames)]
        /\ frames'[Len(frames')].target = app.surface.config
        /\ pc' = pc]_vars

\* three frames presented while the window had been resized
C4_Witness ==
    /\ Len(frames) >= 3
    /\ frames[3] = frames[1]
    /\ IsMain(ev, "Resized")

(***************************************************************************)
(* C5.  A render whose surface acquisition fails panics in that call:      *)
(* nothing is encoded, submitted or presented, the acquisition was tried   *)
(* once, the surface is not reconfigured; and once panicked, no further    *)
(* event is handled.                                                        *)
(***************************************************************************)
C5_AcquireFailureAborts ==
    [][/\ (renderCalls' = renderCalls + 1 /\ surface_texture' # "Ok") =>
            /\ pc' = "panicked" /\ exit_status' = "panic"
            /\ panic_at' = "get_current_texture"
            /\ acquires' = acquires + 1
            /\ UNCHANGED <<encoders, submits, presents, frames, configures, app>>
       /\ pc = "panicked" => UNCHANGED <<pc, renderCalls, ev, frames>>
       /\ Len(frames') = Len(frames) + 1 => surface_texture' = "Ok"]_vars

\* the third render failed to acquire after two frames were presented
C5_Witness ==
    /\ pc = "panicked" /\ panic_at = "get_current_texture"
    /\ surface_texture = "Lost"
    /\ renderCalls = 3 /\ presents = 2 /\ acquires = 3

(***************************************************************************)
(* C6.  A failed setup step ends the process before the loop is entered:   *)
(* App is never partially built, the closure never ran, render was never   *)
(* called; and no step of App::new runs on the result of a failed one.     *)
(***************************************************************************)
C6_SetupFailureTerminates ==
    /\ (pc = "panicked" /\ panic_at \in SetupSites) =>
          /\ app = None /\ renderCalls = 0 /\ acquires = 0
          /\ ev = NoEvent /\ exit_status = "panic"
    /\ app # None =>
          /\ app.device # None /\ app.queue # None /\ app.vbo # None
          /\ app.ibo # None /\ app.surface # None
          /\ app.surface.config # None
          /\ "SPIRV_SHADER_PASSTHROUGH" \in app.device.features
          /\ app.pipeline.fragment.format = app.surface.config.format
    /\ (renderCalls > 0 \/ ev # NoEvent) => panic_at \notin SetupSites
    /\ pc \in {"request_device", "create_surface", "get_default_config",
                "create_buffers", "create_pipeline"} => new.adapter # None
    /\ pc \in {"create_surface", "get_default_config", "create_buffers",
                "create_pipeline"} => new.device # None
    /\ pc \in {"get_default_config", "create_buffers", "create_pipeline"} =>
          new.surface # None
    /\ pc \in {"create_buffers", "create_pipeline"} => new.surface_config # None

\* the surface supports no format: get_default_config(..).unwrap() panicked
C6_Witness ==
    /\ pc = "panicked" /\ panic_at = "get_default_config"
    /\ "device" \in live /\ app = None

(***************************************************************************)
(* C7 as claimed.  The loop stops running only in response to a close      *)
(* request: no redraw, other signal, wake-up or render call ends it.       *)
(***************************************************************************)
C7_OnlyCloseEndsLoop ==
    [][(InLoop /\ ~InLoop') => exit]_vars

(***************************************************************************)
(* C7 as amended.  The loop returns normally only after a main-window      *)
(* close request.  The other ways it stops are panics: an App::render      *)
(* whose surface acquisition failed, or event_loop.run returning an error  *)
(* to the unwrap of line 191.  No render that acquires its image, no other *)
(* signal and no wake-up ends it, and only a main-window close requests    *)
(* the exit.                                                               *)
(***************************************************************************)
C7_LoopEndsByCloseOrPanic ==
    [][/\ (InLoop /\ ~InLoop') =>
            \/ /\ pc' = "exited" /\ exit /\ exit_status' = "success"
               /\ ev = LoopExiting
            \/ /\ pc' = "panicked" /\ panic_at' = "get_current_texture"
               /\ IsMain(ev', "RedrawRequested")
               /\ surface_texture' # "Ok"
               /\ renderCalls' = renderCalls + 1
            \/ /\ pc' = "panicked" /\ panic_at' = "event_loop.run"
               /\ ev = LoopExiting
               /\ UNCHANGED <<ev, exit, RenderVars>>
       /\ pc = "loop_exiting" => UNCHANGED <<ev, exit, RenderVars>>
       /\ (exit' /\ ~exit) => IsMain(ev', "CloseRequested")]_vars

\* the loop was ended by a failed render although no close was requested
C7_Witness ==
    /\ pc = "panicked" /\ panic_at = "get_current_texture"
    /\ ~exit /\ Len(frames) = 1

(***************************************************************************)
(* C8 as claimed.  Once a main-window close request has been handled, the  *)
(* process ends only with the success status and with every resource of    *)
(* App released.  The case in which event_loop.run itself returns an error *)
(* is set aside, so that a violation shows an end the closure caused.      *)
(***************************************************************************)
C8_CloseEndsInSuccess ==
    (exit /\ ~InLoop /\ panic_at # "event_loop.run") =>
        (pc = "exited" /\ exit_status = "success" /\ live = {} /\ app = None)

(***************************************************************************)
(* C9.  With an empty INDEX_DATA the index buffer is created empty, App is *)
(* built as usual, and every render that acquires its image submits and    *)
(* presents a frame whose pass clears to the fixed colour and issues the   *)
(* indexed draw with the empty range 0..0.                                 *)
(***************************************************************************)
C9_EmptyIndexClearOnlyFrame ==
    INDEX_DATA = <<>> =>
        /\ panic_at \notin {"create_buffers", "create_pipeline"}
        /\ pc \in {"create_pipeline"} => new.ibo.contents = <<>>
        /\ app # None => app.ibo.contents = <<>>
        /\ Len(frames) = submits /\ submits = presents
        /\ Len(frames) =
              renderCalls - (IF panic_at = "get_current_texture" THEN 1 ELSE 0)
        /\ \A i \in 1 .. Len(frames) :
              LET p == ThePass(frames[i]) IN
              /\ p[1].op = "begin_render_pass" /\ p[1].color = <<0, 0, 1, 1>>
              /\ p[Len(p)].op = "draw_indexed"
              /\ p[Len(p)].indices = <<0, 0>>
              /\ p[Len(p)].instances = <<0, 1>>

\* a frame was presented although there is nothing to draw
C9_Witness ==
    /\ INDEX_DATA = <<>>
    /\ Len(frames) >= 1 /\ presents >= 1
    /\ pc = "event_loop"

(***************************************************************************)
(* C10 as claimed.  Once elwt.exit() has been called, App::render is never *)
(* called again, whatever is delivered before the loop returns.            *)
(***************************************************************************)
C10_NoRenderAfterClose ==
    [][exit => renderCalls' = renderCalls]_vars
====
